---- MODULE Spec2Model ----
(***************************************************************************)
(* Model of the ink-canvas stream adapters (src/src/utils/streams.ts) and  *)
(* of the InkCanvas host component that wires them to the Xterm.js widget, *)
(* of the InkCanvas of src/index.ts, of Canvas and of the process shim.    *)
(*                                                                         *)
(* The specifications share the variables:                                 *)
(*   SpecInput   TerminalReadableStream: widget data events and read()     *)
(*   SpecWrite   TerminalWritableStream.write applied to one chunk         *)
(*   SpecOutput  TerminalWritableStream: sequences of write and            *)
(*               cursor/erase calls on the two endpoints                   *)
(*   SpecCall    TerminalWritableStream: one call with its encoding and    *)
(*               callback arguments, before and after the widget is        *)
(*               disposed                                                  *)
(*   Spec        InkCanvas host: mount, re-render, resize propagation      *)
(*   SpecLife    InkCanvas host: what each run of the component function   *)
(*               constructs, what the Ink instance is given, unmount       *)
(*   SpecInputCall TerminalReadableStream: mode and flow calls             *)
(*   SpecCanvas  Canvas inside a host whose widget is resized              *)
(*   SpecIndex   InkCanvas as src/index.ts defines it                      *)
(*   SpecTick    process shim: nextTick and the timers it schedules        *)
(*   SpecExit    process shim: exit                                        *)
(*   SpecFocus   InkCanvas host: the focused prop and focus/blur calls     *)
(*   SpecQueue   TerminalReadableStream: chunks arriving with and without  *)
(*               a readable listener                                       *)
(***************************************************************************)
EXTENDS Integers, Sequences, FiniteSets, TLC

(***************************************************************************)
(* Bounds of the model                                                     *)
(***************************************************************************)
\* number of widget data events in a behaviour
MaxData == 3
\* number of read() calls the consumer makes outside a readable listener
MaxReads == MaxData + 1

\* number of nextTick calls in a behaviour
MaxTicks == 3
\* number of turns of the event loop in a behaviour
MaxTurns == 4

\* JavaScript null, as returned by read() on an empty buffer
Null == "<null>"
\* payloads the widget delivers with its data event
Chunks == {"a", "bc"}
\* the advisory size argument of read(); NoSize stands for an omitted argument
NoSize == -1
Sizes == {NoSize, 0, 1, 5}

\* number of calls made on the output endpoints in a behaviour
MaxCalls == 2
\* length of the chunks passed to write()
MaxLen == 3

\* characters; a string is a sequence of characters
CR == "\r"
LF == "\n"
ESC == "ESC"
Alphabet == {CR, LF, "a", "b"}
\* the example of the specification: "a\nb\r\nc"
Example == <<"a", LF, "b", CR, LF, "c">>
ExampleForwarded == <<"a", CR, LF, "b", CR, LF, "c">>
StringsOfLen(n) == [1..n -> Alphabet]
\* every string of at most MaxLen characters, and the example
WriteChunks == UNION {StringsOfLen(n) : n \in 0..MaxLen} \cup {Example}
\* the chunks written where several calls follow each other
StreamChunks == {<<LF>>, <<"a", CR>>, <<LF, "b">>, Example}
\* arguments of the cursor/erase calls
Dirs == {-1, 0, 1}
Coords == {0, 3, 9}
Deltas == {-1, 0, 2}
\* the two output endpoints; both wrap the same widget
Endpoints == {"stdout", "stderr"}

\* number of consecutive direct updateDimensions() calls on one endpoint
MaxResyncs == 2

\* sizes the widget can take: its own default, and what a caller or the
\* fit helper may ask for
Size(c, r) == [cols |-> c, rows |-> r]
DefaultSize == Size(80, 24)
ExternalSizes == {Size(80, 24), Size(120, 40)}
\* proposeDimensions(): undefined (NoProposal) or a size
NoProposal == Size(0, 0)
Proposals == {NoProposal, Size(100, 30), Size(80, 24)}
\* the cols / rows props: absent, or a positive number
Absent == 0
ColsProps == {Absent, 120}
RowsProps == {Absent, 40}
\* number of times the component function runs in a behaviour
MaxRenders == 3
\* the children prop: one of two elements
NoChildren == "none"
Children == {"A", "B"}
\* what the lifecycle specification feeds the host
LifeProposals == {NoProposal, Size(100, 30)}
LifeChunks == {"a"}
\* the onResize prop: absent, or one of two callbacks
NoCallback == "none"
Callbacks == {NoCallback, "f", "g"}

\* the callbacks and the argument lists given to nextTick
TickCallbacks == {"f", "g"}
TickArgs == {<<>>, <<1, 2>>}
\* the arguments of exit: no code, or one
ExitArgs == {<<>>, <<0>>, <<1>>, <<-1>>}

VARIABLES
    \* ---- focus ----
    focusedProp,   \* the focused prop of the latest render
    focusLog,      \* history: the focus() and blur() calls the host made on
                   \* the widget, oldest first
    \* ---- Canvas ----
    canvas,        \* "none", "rendered" (first render done, effect not yet
                   \* run), "subscribed" or "unmounted"
    canvasSize,    \* the size state: columns and rows
    canvasListeners, \* number of Canvas listeners of stdout's resize event
    \* ---- InkCanvas of src/index.ts ----
    closures,      \* the onResize captured by each handler subscribed to
                   \* the widget's resize event, in subscription order
    \* ---- process shim ----
    timers,        \* the pending setTimeout(fn, 0) timers, oldest first
    invoked,       \* the callbacks the timers have invoked: callback,
                   \* arguments and the turn it ran in
    turnNo,        \* number of the current turn of the event loop
    running,       \* code of the current turn is still running
    ticks,         \* history: the nextTick calls made, with their turn
    lastExit,      \* history: the latest exit call and its outcome
    \* ---- InkCanvas host ----
    term,          \* the widget's cols and rows
    columns,       \* columns of each output endpoint
    rows,          \* rows of each output endpoint
    handlers,      \* number of handlers subscribed to terminal.onResize
    phase,         \* "constructed" (rendered, effects not yet run),
                   \* "mounted" or "unmounted"
    colsProp,      \* props of the latest render
    rowsProp,
    onResizeProp,
    onResizeRef,   \* onResizeRef.current
    dimensions,    \* the dimensions state of the component
    observer,      \* how many ResizeObservers are observing the container
    seen,          \* history of the latest operation: what each listener
                   \* of a resize signal found when it ran
    cbCalls,       \* history of the latest operation: onResize callbacks run
    lastOp,        \* history: the latest operation on the host
    run,           \* history: per endpoint, the direct updateDimensions()
                   \* calls since the widget's last resize event
    children,      \* props of the latest render
    autoFit,
    stale,         \* setDimensions was called after the latest render
    ink,           \* the Ink instance: calls of render() made for it, the
                   \* tree it shows, whether it has been unmounted
    updated,       \* history of the latest operation: the arguments of
                   \* instance.rerender() and the output endpoint's size
                   \* at the call
    lastSizing,    \* history: the size effect or observer callback the
                   \* latest operation ran, with the fit helper's proposal
    unmountedAt,   \* history: data events delivered before the unmount;
                   \* -1 while the host has not been unmounted
    orphans,       \* the buffers of the TerminalReadableStream objects
                   \* constructed by re-renders and dropped by useRef
    \* ---- the widget, as the output endpoints drive it ----
    termWritten,   \* history: the arguments of term.write(), in call order
    calls,         \* history: the calls made on the output endpoints
    writable,      \* public writable of each output endpoint
    disposed,      \* the widget has been disposed
    lastCall,      \* history: the latest call observed with its callback:
                   \* what it was given, what it returned, and the widget
                   \* writes and callback invocations it made, in order
    \* ---- TerminalReadableStream (stdin) ----
    buffer,        \* private buffer: string[]
    isRaw,         \* public isRaw
    listening,     \* a consumer listener for "readable" is registered
    signals,       \* history: buffer contents at each emit("readable")
    got,           \* history: non-null values returned by read(), in order
    delivered,     \* history: payloads of the widget's data events, in order
    lastRead,      \* history: the most recent read() call
    reads,         \* number of read() calls made outside a listener
    listenedFrom,  \* history: data events delivered before the listener was
                   \* registered; -1 while there is no listener
    lastInput      \* history: the latest mode or flow call on stdin: its
                   \* argument, what it returned, the buffer and flag before
                   \* and after it, the data events delivered before it

inputVars == <<buffer, isRaw, listening, signals, got, delivered, lastRead, reads,
               listenedFrom, lastInput>>

outputVars == <<termWritten, calls, writable, disposed, lastCall>>

hostVars == <<term, columns, rows, handlers, phase, colsProp, rowsProp,
              onResizeProp, onResizeRef, dimensions, observer, seen, cbCalls,
              lastOp, run, children, autoFit, stale, ink, updated, lastSizing,
              unmountedAt>>

shimVars == <<timers, invoked, turnNo, running, ticks, lastExit>>

canvasVars == <<canvas, canvasSize, canvasListeners>>

indexVars == <<closures>>

focusVars == <<focusedProp, focusLog>>

vars == <<inputVars, outputVars, hostVars, orphans, shimVars, canvasVars,
          indexVars, focusVars>>

(***************************************************************************)
(* TerminalReadableStream                                                  *)
(***************************************************************************)
\* The stream as the operators below see it: the buffer, the registered
\* listener, and the two histories a listener or an emit appends to.
StdinState == [buffer |-> buffer, listening |-> listening,
               signals |-> signals, got |-> got]

\* read() as a stack: pop() instead of shift().
readPop(buf, size) ==
    IF Len(buf) = 0
    THEN [result |-> Null, buffer |-> buf]
    ELSE [result |-> buf[Len(buf)], buffer |-> SubSeq(buf, 1, Len(buf) - 1)]

\* read(_size): null on an empty buffer, otherwise shift() the oldest chunk.
read(buf, size) ==
    IF Len(buf) = 0
    THEN [result |-> Null, buffer |-> buf]
    ELSE [result |-> Head(buf), buffer |-> Tail(buf)]

\* The consumer's readable listener: loops read() until it returns null.
RECURSIVE DrainListener(_)
DrainListener(st) ==
    LET r == read(st.buffer, NoSize)
    IN  IF r.result = Null
        THEN st
        ELSE DrainListener([st EXCEPT
                 !.buffer = r.buffer,
                 !.got = Append(@, [chunk |-> r.result,
                                    during |-> Len(st.signals)])])

\* An emit that only records the signal and leaves the listeners for later.
EmitReadableDeferred(st) ==
    [st EXCEPT !.signals = Append(@, st.buffer)]

\* this.emit("readable"): EventEmitter runs the listeners synchronously.
EmitReadable(st) ==
    LET st1 == [st EXCEPT !.signals = Append(@, st.buffer)]
    IN  IF st.listening THEN DrainListener(st1) ELSE st1

\* The handler with its two statements swapped: emit, then push.
onDataEmitFirst(st, data) ==
    LET e == EmitReadable(st)
    IN  [e EXCEPT !.buffer = Append(@, data)]

\* A handler that keeps the chunk only while a listener is registered.
onDataUnheardDropped(st, data) ==
    IF st.listening
    THEN EmitReadable([st EXCEPT !.buffer = Append(@, data)])
    ELSE EmitReadable(st)

\* The handler the constructor subscribes to term.onData.
onData(st, data) ==
    EmitReadable([st EXCEPT !.buffer = Append(@, data)])

(***************************************************************************)
(* TerminalWritableStream                                                  *)
(***************************************************************************)
\* A number in a template literal: its decimal digits, "-" first if negative.
Digit(d) == CASE d = 0 -> "0" [] d = 1 -> "1" [] d = 2 -> "2" [] d = 3 -> "3"
              [] d = 4 -> "4" [] d = 5 -> "5" [] d = 6 -> "6" [] d = 7 -> "7"
              [] d = 8 -> "8" [] d = 9 -> "9"
RECURSIVE NatToString(_)
NatToString(n) ==
    IF n < 10 THEN <<Digit(n)>>
    ELSE Append(NatToString(n \div 10), Digit(n % 10))
NumToString(n) == IF n < 0 THEN <<"-">> \o NatToString(-n) ELSE NatToString(n)

\* term.write(str): the widget receives one more string.
TermWrite(W, str) == Append(W, str)

\* A replace without the lookbehind: every "\n" becomes "\r\n".
RECURSIVE ReplaceEveryLF(_, _)
ReplaceEveryLF(str, i) ==
    IF i > Len(str) THEN <<>>
    ELSE (IF str[i] = LF THEN <<CR, LF>> ELSE <<str[i]>>)
         \o ReplaceEveryLF(str, i + 1)

\* A replace without the g flag: only the first bare "\n" becomes "\r\n".
RECURSIVE ReplaceFirstBareLF(_, _)
ReplaceFirstBareLF(str, i) ==
    IF i > Len(str) THEN <<>>
    ELSE IF str[i] = LF /\ ~(i > 1 /\ str[i - 1] = CR)
    THEN <<CR, LF>> \o SubSeq(str, i + 1, Len(str))
    ELSE <<str[i]>> \o ReplaceFirstBareLF(str, i + 1)

\* str.replace(/(?<!\r)\n/g, "\r\n") from position i on: a "\n" whose
\* preceding character of str is not "\r" becomes "\r\n".
RECURSIVE ReplaceBareLF(_, _)
ReplaceBareLF(str, i) ==
    IF i > Len(str) THEN <<>>
    ELSE (IF str[i] = LF /\ ~(i > 1 /\ str[i - 1] = CR)
          THEN <<CR, LF>> ELSE <<str[i]>>)
         \o ReplaceBareLF(str, i + 1)

\* A write that appends to the string the widget received last.
writeCoalesced(W, chunk) ==
    IF W = <<>> THEN TermWrite(W, ReplaceBareLF(chunk, 1))
    ELSE [W EXCEPT ![Len(W)] = @ \o ReplaceBareLF(chunk, 1)]

\* write(chunk): normalise the newlines, forward to the widget.
write(W, chunk) == TermWrite(W, ReplaceBareLF(chunk, 1))

\* A clearLine with the two one-sided erases exchanged.
clearLineSwapped(W, dir) ==
    IF dir = -1 THEN TermWrite(W, <<ESC, "[", "0", "K">>)
    ELSE IF dir = 1 THEN TermWrite(W, <<ESC, "[", "1", "K">>)
    ELSE TermWrite(W, <<ESC, "[", "2", "K">>)

\* clearLine(dir)
clearLine(W, dir) ==
    IF dir = -1 THEN TermWrite(W, <<ESC, "[", "1", "K">>)
    ELSE IF dir = 1 THEN TermWrite(W, <<ESC, "[", "0", "K">>)
    ELSE TermWrite(W, <<ESC, "[", "2", "K">>)

\* clearScreenDown()
clearScreenDown(W) == TermWrite(W, <<ESC, "[", "J">>)

\* A cursorTo that tests y for truth: row 0 counts as no row.
cursorToTruthyY(W, args) ==
    IF Len(args) = 2 /\ args[2] # 0
    THEN TermWrite(W, <<ESC, "[">> \o NumToString(args[2] + 1) \o <<";">>
                      \o NumToString(args[1] + 1) \o <<"H">>)
    ELSE TermWrite(W, <<ESC, "[">> \o NumToString(args[1] + 1) \o <<"G">>)

\* cursorTo(x, y?): args is <<x>> when y is omitted (or is the callback)
cursorTo(W, args) ==
    IF Len(args) = 2
    THEN TermWrite(W, <<ESC, "[">> \o NumToString(args[2] + 1) \o <<";">>
                      \o NumToString(args[1] + 1) \o <<"H">>)
    ELSE TermWrite(W, <<ESC, "[">> \o NumToString(args[1] + 1) \o <<"G">>)

\* A moveCursor that writes the vertical move first.
moveCursorVerticalFirst(W, dx, dy) ==
    LET W1 == IF dy > 0 THEN TermWrite(W, <<ESC, "[">> \o NumToString(dy) \o <<"B">>)
              ELSE W
        W2 == IF dy < 0 THEN TermWrite(W1, <<ESC, "[">> \o NumToString(-dy) \o <<"A">>)
              ELSE W1
        W3 == IF dx > 0 THEN TermWrite(W2, <<ESC, "[">> \o NumToString(dx) \o <<"C">>)
              ELSE W2
    IN  IF dx < 0 THEN TermWrite(W3, <<ESC, "[">> \o NumToString(-dx) \o <<"D">>)
        ELSE W3

\* moveCursor(dx, dy)
moveCursor(W, dx, dy) ==
    LET W1 == IF dx > 0 THEN TermWrite(W, <<ESC, "[">> \o NumToString(dx) \o <<"C">>)
              ELSE W
        W2 == IF dx < 0 THEN TermWrite(W1, <<ESC, "[">> \o NumToString(-dx) \o <<"D">>)
              ELSE W1
        W3 == IF dy > 0 THEN TermWrite(W2, <<ESC, "[">> \o NumToString(dy) \o <<"B">>)
              ELSE W2
    IN  IF dy < 0 THEN TermWrite(W3, <<ESC, "[">> \o NumToString(-dy) \o <<"A">>)
        ELSE W3

\* JavaScript undefined, for an argument that is omitted
Undefined == "undefined"
\* the encoding names and the callback functions a caller passes
Encodings == {"utf8"}
Functions == {"cb"}

\* No call observed yet.
NoCall == [args |-> <<>>, cb |-> Undefined, disposed |-> FALSE,
           ep |-> "stdout", kind |-> Undefined, op |-> "none", ret |-> "none",
           str |-> <<>>, trace |-> <<>>]

InitOutput ==
    /\ termWritten = <<>>
    /\ calls = <<>>
    /\ writable = [ep \in Endpoints |-> TRUE]
    /\ disposed = FALSE
    /\ lastCall = NoCall

\* The record of one call: the endpoint, the operation, its arguments, and
\* where the widget's history stood when the call was made and returned.
Call(ep, op, chunk, args, W) ==
    [ep |-> ep, op |-> op, chunk |-> chunk, args |-> args,
     at |-> Len(termWritten), n |-> Len(W) - Len(termWritten)]

\* An output call returns: the widget has received W.
Returned(ep, op, chunk, args, W) ==
    /\ Len(calls) < MaxCalls
    /\ termWritten' = W
    /\ calls' = Append(calls, Call(ep, op, chunk, args, W))
    /\ UNCHANGED <<writable, disposed, lastCall>>
    /\ UNCHANGED <<inputVars, hostVars, orphans, shimVars,
                   canvasVars, indexVars, focusVars>>

Write(ep, chunk) ==
    Returned(ep, "write", chunk, <<>>, write(termWritten, chunk))

ClearLine(ep, dir) ==
    Returned(ep, "clearLine", <<>>, <<dir>>, clearLine(termWritten, dir))

ClearScreenDown(ep) ==
    Returned(ep, "clearScreenDown", <<>>, <<>>, clearScreenDown(termWritten))

CursorTo(ep, args) ==
    Returned(ep, "cursorTo", <<>>, args, cursorTo(termWritten, args))

MoveCursor(ep, dx, dy) ==
    Returned(ep, "moveCursor", <<>>, <<dx, dy>>,
             moveCursor(termWritten, dx, dy))

\* One write, of any chunk, on a fresh endpoint.
FirstWrite(ep, chunk) == calls = <<>> /\ Write(ep, chunk)

NextWrite == \E ep \in Endpoints, chunk \in WriteChunks : FirstWrite(ep, chunk)

NextOutput ==
    \/ \E ep \in Endpoints, chunk \in StreamChunks : Write(ep, chunk)
    \/ \E ep \in Endpoints, dir \in Dirs : ClearLine(ep, dir)
    \/ \E ep \in Endpoints : ClearScreenDown(ep)
    \/ \E ep \in Endpoints, x \in Coords : CursorTo(ep, <<x>>)
    \/ \E ep \in Endpoints, x \in Coords, y \in Coords : CursorTo(ep, <<x, y>>)
    \/ \E ep \in Endpoints, dx \in Deltas, dy \in Deltas : MoveCursor(ep, dx, dy)

(***************************************************************************)
(* TerminalWritableStream: one call with all its arguments                 *)
(***************************************************************************)
\* Uint8Array.prototype.toString(): the decimal bytes joined by ","
RECURSIVE BytesToString(_)
BytesToString(bytes) ==
    IF bytes = <<>> THEN <<>>
    ELSE IF Len(bytes) = 1 THEN NumToString(bytes[1])
    ELSE NumToString(bytes[1]) \o <<",">> \o BytesToString(Tail(bytes))

\* typeof chunk === "string" ? chunk : chunk.toString()
ChunkToString(kind, data) ==
    IF kind = "string" THEN data ELSE BytesToString(data)

\* What a call did, in order: the strings it passed to term.write() ...
WidgetWrites(W) == [i \in 1..Len(W) |-> [data |-> W[i], ev |-> "term.write"]]
\* ... and, last, if (callback) callback()
Invoke(trace, callback) ==
    IF callback # Undefined
    THEN Append(trace, [data |-> <<callback>>, ev |-> "callback"])
    ELSE trace

\* A write that takes its callback from the third argument only.
writeCallThirdOnly(kind, data, a2, a3) ==
    [ret |-> "true",
     trace |-> Invoke(WidgetWrites(write(<<>>, ChunkToString(kind, data))), a3)]

\* write(chunk, encodingOrCallback?, callback?)
writeCall(kind, data, a2, a3) ==
    LET callback == IF a2 \in Functions THEN a2 ELSE a3
    IN  [ret |-> "true",
         trace |-> Invoke(WidgetWrites(write(<<>>, ChunkToString(kind, data))),
                          callback)]

\* if (chunk): a string is truthy unless empty, a Uint8Array always,
\* undefined never
Truthy(kind, data) == kind = "bytes" \/ (kind = "string" /\ data # <<>>)

\* end(chunk?, callback?)
endCall(kind, data, callback) ==
    [ret |-> "this",
     trace |-> IF Truthy(kind, data)
               THEN writeCall(kind, data, callback, Undefined).trace
               ELSE <<>>]

\* clearLine(dir, callback?)
clearLineCall(dir, callback) ==
    [ret |-> "true",
     trace |-> Invoke(WidgetWrites(clearLine(<<>>, dir)), callback)]

\* clearScreenDown(callback?)
clearScreenDownCall(callback) ==
    [ret |-> "true",
     trace |-> Invoke(WidgetWrites(clearScreenDown(<<>>)), callback)]

\* cursorTo(x, y?, callback?): args holds the numbers passed, <<x>> or
\* <<x, y>>; f2 is a function passed in the place of y, f3 the third argument
cursorToCall(args, f2, f3) ==
    LET callback == IF f2 \in Functions THEN f2 ELSE f3
    IN  [ret |-> "true",
         trace |-> Invoke(WidgetWrites(cursorTo(<<>>, args)), callback)]

\* moveCursor(dx, dy, callback?)
moveCursorCall(dx, dy, callback) ==
    [ret |-> "true",
     trace |-> Invoke(WidgetWrites(moveCursor(<<>>, dx, dy)), callback)]

\* the chunks of the observed calls: strings, the empty string, byte arrays
CallStrings == StreamChunks \cup {<<>>}
CallBytes == {<<>>, <<97>>, <<97, 10>>}
\* the second and third argument of write(): (chunk), (chunk, encoding),
\* (chunk, callback), (chunk, encoding, callback), (chunk, undefined, callback)
WriteForms == {<<Undefined, Undefined>>, <<"utf8", Undefined>>,
               <<"cb", Undefined>>, <<"utf8", "cb">>, <<Undefined, "cb">>}
\* the second and third argument of cursorTo() where they are not numbers
CursorForms == {<<Undefined, Undefined>>, <<"cb", Undefined>>,
                <<Undefined, "cb">>}
CallCoords == {0, 3, 5, 9}
\* the dir argument of clearLine(): the three documented values, another
\* number, and OmittedDir for a call without it (dir is then undefined,
\* which is neither -1 nor 1)
OmittedDir == 100
CallDirs == Dirs \cup {2, OmittedDir}
\* the dx and dy arguments of moveCursor()
CallDeltas == {-12, -1, 0, 2, 10}
CursorArgs == {<<x>> : x \in CallCoords}
              \cup {<<x, y>> : x \in CallCoords, y \in CallCoords}
MaybeFunctions == Functions \cup {Undefined}

\* The function among the arguments a caller passed, if there is one.
Supplied(a2, a3) == IF a2 \in Functions THEN a2 ELSE a3

\* A call made on endpoint ep has returned res.
Observed(ep, op, kind, str, args, cb, res) ==
    /\ lastCall' = [args |-> args, cb |-> cb, disposed |-> disposed,
                    ep |-> ep, kind |-> kind, op |-> op, ret |-> res.ret,
                    str |-> str, trace |-> res.trace]
    /\ UNCHANGED <<termWritten, calls, writable, disposed>>
    /\ UNCHANGED <<inputVars, hostVars, orphans, shimVars,
                   canvasVars, indexVars, focusVars>>

\* the numbers a chunk passes to a call: the bytes of a byte chunk
ChunkBytes(kind, data) == IF kind = "bytes" THEN data ELSE <<>>

WriteCall(ep, kind, data, a2, a3) ==
    Observed(ep, "write", kind, ChunkToString(kind, data),
             ChunkBytes(kind, data), Supplied(a2, a3),
             writeCall(kind, data, a2, a3))

EndCall(ep, kind, data, callback) ==
    Observed(ep, "end", kind, ChunkToString(kind, data),
             ChunkBytes(kind, data), callback, endCall(kind, data, callback))

ClearLineCall(ep, dir, callback) ==
    Observed(ep, "clearLine", Undefined, <<>>, <<dir>>, callback,
             clearLineCall(dir, callback))

ClearScreenDownCall(ep, callback) ==
    Observed(ep, "clearScreenDown", Undefined, <<>>, <<>>, callback,
             clearScreenDownCall(callback))

CursorToCall(ep, args, f2, f3) ==
    /\ Len(args) = 2 => f2 = Undefined
    /\ Observed(ep, "cursorTo", Undefined, <<>>, args, Supplied(f2, f3),
                cursorToCall(args, f2, f3))

MoveCursorCall(ep, dx, dy, callback) ==
    Observed(ep, "moveCursor", Undefined, <<>>, <<dx, dy>>, callback,
             moveCursorCall(dx, dy, callback))

\* A holder of the widget disposes it: terminal.dispose().
Dispose ==
    /\ ~disposed
    /\ disposed' = TRUE
    /\ UNCHANGED <<termWritten, calls, writable, lastCall>>
    /\ UNCHANGED <<inputVars, hostVars, orphans, shimVars,
                   canvasVars, indexVars, focusVars>>

NextCall ==
    \/ \E ep \in Endpoints, data \in CallStrings, f \in WriteForms :
          WriteCall(ep, "string", data, f[1], f[2])
    \/ \E ep \in Endpoints, data \in CallBytes, f \in WriteForms :
          WriteCall(ep, "bytes", data, f[1], f[2])
    \/ \E ep \in Endpoints, data \in CallStrings, cb \in MaybeFunctions :
          EndCall(ep, "string", data, cb)
    \/ \E ep \in Endpoints, data \in CallBytes, cb \in MaybeFunctions :
          EndCall(ep, "bytes", data, cb)
    \/ \E ep \in Endpoints, cb \in MaybeFunctions :
          EndCall(ep, Undefined, <<>>, cb)
    \/ \E ep \in Endpoints, dir \in CallDirs, cb \in MaybeFunctions :
          ClearLineCall(ep, dir, cb)
    \/ \E ep \in Endpoints, cb \in MaybeFunctions : ClearScreenDownCall(ep, cb)
    \/ \E ep \in Endpoints, args \in CursorArgs, f \in CursorForms :
          CursorToCall(ep, args, f[1], f[2])
    \/ \E ep \in Endpoints, dx \in CallDeltas, dy \in CallDeltas,
          cb \in MaybeFunctions : MoveCursorCall(ep, dx, dy, cb)
    \/ Dispose

(***************************************************************************)
(* Resize propagation: TerminalWritableStream.updateDimensions and the     *)
(* InkCanvas host                                                          *)
(***************************************************************************)
\* The part of the host an operation changes while it dispatches; seen and
\* cbCalls start empty with each operation.
HostState == [columns |-> columns, rows |-> rows, dimensions |-> dimensions,
              seen |-> <<>>, cbCalls |-> <<>>]

\* this.emit("resize") on endpoint ep: its listeners run now and find the
\* two endpoints and the widget as they are at this moment.
EmitResize(hs, ep, t) ==
    [hs EXCEPT !.seen = Append(@, [ep |-> ep, columns |-> hs.columns,
                                   rows |-> hs.rows, term |-> t])]

\* updateDimensions() that signals first and assigns afterwards.
updateDimensionsEmitFirst(hs, ep, t) ==
    [EmitResize(hs, ep, t) EXCEPT !.columns[ep] = t.cols, !.rows[ep] = t.rows]

\* updateDimensions() that forgets the rows.
updateDimensionsColumnsOnly(hs, ep, t) ==
    EmitResize([hs EXCEPT !.columns[ep] = t.cols], ep, t)

\* updateDimensions() that signals only when a dimension changed.
updateDimensionsOnChange(hs, ep, t) ==
    LET hs1 == [hs EXCEPT !.columns[ep] = t.cols, !.rows[ep] = t.rows]
    IN  IF hs.columns[ep] = t.cols /\ hs.rows[ep] = t.rows
        THEN hs1 ELSE EmitResize(hs1, ep, t)

\* updateDimensions(): copy the widget's size, then emit "resize".
updateDimensions(hs, ep, t) ==
    EmitResize([hs EXCEPT !.columns[ep] = t.cols, !.rows[ep] = t.rows], ep, t)

\* getWindowSize()
getWindowSize(ep) == <<columns[ep], rows[ep]>>

\* A handler that resyncs the output endpoint only.
onResizeHandlerStdoutOnly(hs, t, ref) ==
    LET h1 == updateDimensions(hs, "stdout", t)
        h2 == IF ref # NoCallback
              THEN [h1 EXCEPT !.cbCalls = Append(@, [fn |-> ref, dims |-> t])]
              ELSE h1
    IN  [h2 EXCEPT !.dimensions = t]

\* The handler subscribed to terminal.onResize: resync both endpoints, call
\* onResizeRef.current if there is one, setDimensions.
onResizeHandler(hs, t, ref) ==
    LET h1 == updateDimensions(hs, "stdout", t)
        h2 == updateDimensions(h1, "stderr", t)
        h3 == IF ref # NoCallback
              THEN [h2 EXCEPT !.cbCalls = Append(@, [fn |-> ref, dims |-> t])]
              ELSE h2
    IN  [h3 EXCEPT !.dimensions = t]

\* The widget fires its resize event: each subscribed handler runs in turn.
RECURSIVE FireResize(_, _, _, _)
FireResize(hs, t, ref, k) ==
    IF k = 0 THEN hs
    ELSE FireResize(onResizeHandler(hs, t, ref), t, ref, k - 1)

\* terminal.resize(cols, rows): nothing happens when the size is the
\* widget's already; otherwise the widget takes the size and fires resize.
TerminalResize(hs, t, size, ref, k) ==
    IF size = t
    THEN [term |-> t, hs |-> hs, fired |-> FALSE]
    ELSE [term |-> size, hs |-> FireResize(hs, size, ref, k), fired |-> TRUE]

\* The resize-listener effect subscribing again whenever onResize changes.
ResizeEffectDeps(oldCb, newCb) == oldCb # newCb

\* The resize-listener effect has the dependency list []: it never re-runs.
ResizeEffectReruns(oldCb, newCb) == FALSE

\* A size effect that attaches the observer before it looks at the props.
SizeEffectObserveFirst(hs, t, cols, rows_, proposal, ref, k) ==
    [res |-> IF cols # Absent /\ rows_ # Absent
             THEN TerminalResize(hs, t, Size(cols, rows_), ref, k)
             ELSE IF proposal # NoProposal
             THEN TerminalResize(hs, t,
                      Size(IF cols # Absent THEN cols ELSE proposal.cols,
                           IF rows_ # Absent THEN rows_ ELSE proposal.rows),
                      ref, k)
             ELSE [term |-> t, hs |-> hs, fired |-> FALSE],
     observer |-> TRUE]

\* The size effect, run with props cols and rows and the fit helper's
\* proposal: a fixed size is applied and no observer attached; otherwise an
\* observer is attached and the proposal, if any, applied at once.
SizeEffect(hs, t, cols, rows_, proposal, ref, k) ==
    IF cols # Absent /\ rows_ # Absent
    THEN [res |-> TerminalResize(hs, t, Size(cols, rows_), ref, k),
          observer |-> FALSE]
    ELSE [res |-> IF proposal # NoProposal
                  THEN TerminalResize(hs, t,
                           Size(IF cols # Absent THEN cols ELSE proposal.cols,
                                IF rows_ # Absent THEN rows_ ELSE proposal.rows),
                           ref, k)
                  ELSE [term |-> t, hs |-> hs, fired |-> FALSE],
          observer |-> TRUE]

\* The size effect's cleanup leaving every observer attached.
SizeCleanupNone(n) == n

\* The cleanup the size effect returned, run before the effect runs again
\* and at unmount: resizeObserver.disconnect(), if the run attached one.
SizeCleanup(n) == IF n > 0 THEN n - 1 ELSE 0

\* new ResizeObserver(onResize).observe(container), if the run reaches it
Attached(n, attaches) == IF attaches THEN n + 1 ELSE n

NoRun == [ep \in Endpoints |->
             [k |-> 0, signals |-> 0, dims |-> NoProposal]]

\* <Box />: what render() is given on every run of the component function
EmptyBox == [children |-> NoChildren, height |-> NoSize, width |-> NoSize,
             wrapped |-> TRUE]

\* A wrapping that takes the width from the rows and the height from the
\* columns.
WrapSwapped(ch, af, dims) ==
    IF af
    THEN [children |-> ch, height |-> dims.cols, width |-> dims.rows,
          wrapped |-> TRUE]
    ELSE [children |-> ch, height |-> NoSize, width |-> NoSize,
          wrapped |-> FALSE]

\* What the rerender effect passes to instance.rerender(): the children,
\* inside <Box width={dimensions.cols} height={dimensions.rows}> if autoFit.
Wrap(ch, af, dims) ==
    IF af
    THEN [children |-> ch, height |-> dims.rows, width |-> dims.cols,
          wrapped |-> TRUE]
    ELSE [children |-> ch, height |-> NoSize, width |-> NoSize,
          wrapped |-> FALSE]

\* One instance.rerender(tree) call, and the output endpoint as it is then.
Update(tree) == [arg |-> tree, columns |-> columns["stdout"],
                 rows |-> rows["stdout"]]

\* No size effect and no observer callback ran.
NoSizing == [kind |-> "none", proposal |-> NoProposal]

\* The state after the component's first render with props cols, rows,
\* onResize, children and autoFit: widget, endpoints and refs constructed,
\* render(<Box />) called, no effect run yet.
Constructed(cols, rows_, cb, ch, af) ==
    /\ term = DefaultSize
    /\ columns = [ep \in Endpoints |-> term.cols]
    /\ rows = [ep \in Endpoints |-> term.rows]
    /\ handlers = 0
    /\ phase = "constructed"
    /\ colsProp = cols
    /\ rowsProp = rows_
    /\ onResizeProp = cb
    /\ onResizeRef = cb
    /\ dimensions = Size(0, 0)
    /\ observer = 0
    /\ seen = <<>>
    /\ cbCalls = <<>>
    /\ lastOp = "render"
    /\ run = NoRun
    /\ children = ch
    /\ autoFit = af
    /\ stale = FALSE
    /\ ink = [entries |-> 1, tree |-> EmptyBox, unmounted |-> FALSE]
    /\ updated = <<>>
    /\ lastSizing = NoSizing
    /\ unmountedAt = -1
    /\ orphans = <<>>

\* the host of the resize specification: any size props and callback, the
\* children rendered unwrapped
InitHost ==
    \E c \in ColsProps, r \in RowsProps, cb \in Callbacks :
        Constructed(c, r, cb, "A", FALSE)

\* the host of the specifications that exercise the streams alone
InitPlainHost == Constructed(Absent, Absent, NoCallback, "A", FALSE)

\* the host of the lifecycle specification: no fixed size, no callback
InitLife ==
    \E ch \in Children, af \in BOOLEAN :
        Constructed(Absent, Absent, NoCallback, ch, af)

\* The outcome res of a terminal.resize() becomes the state.
Resized(res) ==
    /\ term' = res.term
    /\ columns' = res.hs.columns
    /\ rows' = res.hs.rows
    /\ dimensions' = res.hs.dimensions
    /\ seen' = res.hs.seen
    /\ cbCalls' = res.hs.cbCalls
    /\ lastOp' = IF res.fired THEN "resize" ELSE "noresize"
    /\ run' = IF res.fired THEN NoRun ELSE run

\* The dependency list of a focus effect that has none: it runs after
\* every render.
FocusDepsEveryRender(old, new) == TRUE

\* The focus effect has the dependency list [focused].
FocusDepsChanged(old, new) == old # new

\* The focus effect: terminal.focus() if focused, else terminal.blur().
FocusEffect(log, focused) ==
    Append(log, IF focused THEN "focus" ELSE "blur")

\* The focused prop of the first render; no call made yet.
InitFocus(fo) ==
    /\ focusedProp = fo
    /\ focusLog = <<>>

\* No Canvas has been rendered.
NoCanvasSize == [columns |-> NoSize, rows |-> NoSize]

InitCanvas ==
    /\ canvas = "none"
    /\ canvasSize = NoCanvasSize
    /\ canvasListeners = 0

\* The resize signals stdout emitted, of those in signals
OnStdout(sigs) == SelectSeq(sigs, LAMBDA e : e.ep = "stdout")

\* Canvas's onResize listener, run for every resize stdout emits during the
\* step: setSize({columns: stdout.columns, rows: stdout.rows}).
CanvasHears ==
    /\ canvasSize' =
           LET heard == OnStdout(seen')
           IN  IF canvasListeners > 0 /\ heard # <<>>
               THEN [columns |-> heard[Len(heard)].columns["stdout"],
                     rows |-> heard[Len(heard)].rows["stdout"]]
               ELSE canvasSize
    /\ UNCHANGED <<canvas, canvasListeners>>

\* instance.unmount() unmounts the tree: the cleanup of a rendered Canvas
\* runs, stdout.off("resize", onResize).
CanvasCleanup ==
    /\ canvas' = IF canvas \in {"rendered", "subscribed"}
                 THEN "unmounted" ELSE canvas
    /\ canvasListeners' = IF canvas = "subscribed"
                          THEN canvasListeners - 1 ELSE canvasListeners
    /\ UNCHANGED canvasSize

\* The effects of the first commit, in source order: rerender the children
\* with the dimensions state of the first render, subscribe the resize
\* handler, open the widget and setDimensions, run the size effect.
MountEffects(proposal) ==
    /\ phase = "constructed"
    /\ phase' = "mounted"
    /\ LET tree == Wrap(children, autoFit, dimensions)
       IN  /\ ink' = [ink EXCEPT !.tree = tree]
           /\ updated' = <<Update(tree)>>
    /\ handlers' = handlers + 1
    /\ LET opened == [HostState EXCEPT !.dimensions = term]
           eff == SizeEffect(opened, term, colsProp, rowsProp, proposal,
                             onResizeRef, handlers + 1)
       IN  /\ Resized(eff.res)
           /\ observer' = Attached(observer, eff.observer)
    /\ stale' = TRUE
    /\ lastSizing' = [kind |-> "effect", proposal |-> proposal]
    /\ UNCHANGED <<colsProp, rowsProp, onResizeProp, onResizeRef, children,
                   autoFit, unmountedAt>>
    /\ CanvasHears
    /\ focusLog' = FocusEffect(focusLog, focusedProp)
    /\ UNCHANGED focusedProp
    /\ UNCHANGED <<inputVars, outputVars, orphans, shimVars, indexVars>>

\* The component function runs again, because the parent rendered it with
\* props cols, rows, onResize, children, autoFit or because setDimensions
\* was called: every useRef argument is evaluated again, so one more
\* TerminalReadableStream subscribes to the widget in terminalRef and is
\* dropped, and render(<Box />) is called for the same stdout; then the
\* effects whose dependencies changed are cleaned up and run again.
Rerender(cols, rows_, cb, ch, af, fo, proposal) ==
    /\ phase = "mounted"
    /\ Len(orphans) + 1 < MaxRenders
    /\ orphans' = Append(orphans, <<>>)
    /\ colsProp' = cols
    /\ rowsProp' = rows_
    /\ onResizeProp' = cb
    /\ children' = ch
    /\ autoFit' = af
    /\ IF ch # children \/ af # autoFit \/ stale
       THEN LET tree == Wrap(ch, af, dimensions)
            IN  /\ ink' = [ink EXCEPT !.entries = @ + 1, !.tree = tree]
                /\ updated' = <<Update(tree)>>
       ELSE /\ ink' = [ink EXCEPT !.entries = @ + 1, !.tree = EmptyBox]
            /\ updated' = <<>>
    /\ LET k == IF ResizeEffectReruns(onResizeProp, cb)
                THEN handlers + 1 ELSE handlers
       IN  /\ handlers' = k
           /\ IF <<cols, rows_>> # <<colsProp, rowsProp>>
              THEN LET eff == SizeEffect(HostState, term, cols, rows_, proposal,
                                         onResizeRef, k)
                   IN  /\ Resized(eff.res)
                       /\ observer' = Attached(SizeCleanup(observer),
                                                eff.observer)
                       /\ stale' = eff.res.fired
                       /\ lastSizing' = [kind |-> "effect",
                                         proposal |-> proposal]
              ELSE /\ lastOp' = "noresize"
                   /\ seen' = <<>>
                   /\ cbCalls' = <<>>
                   /\ stale' = FALSE
                   /\ lastSizing' = NoSizing
                   /\ UNCHANGED <<term, columns, rows, dimensions, observer,
                                  run>>
    /\ UNCHANGED <<phase, onResizeRef, unmountedAt>>
    /\ CanvasHears
    /\ focusedProp' = fo
    /\ focusLog' = IF FocusDepsChanged(focusedProp, fo)
                   THEN FocusEffect(focusLog, fo) ELSE focusLog
    /\ UNCHANGED <<inputVars, outputVars, shimVars, indexVars>>

\* The ResizeObserver reports a container size change: auto-fit.
ContainerResize(proposal) ==
    /\ observer > 0
    /\ LET res == IF proposal # NoProposal
                  THEN TerminalResize(HostState, term,
                           Size(IF colsProp # Absent THEN colsProp
                                ELSE proposal.cols,
                                IF rowsProp # Absent THEN rowsProp
                                ELSE proposal.rows),
                           onResizeRef, handlers)
                  ELSE [term |-> term, hs |-> HostState, fired |-> FALSE]
       IN  /\ Resized(res)
           /\ stale' = (stale \/ res.fired)
    /\ updated' = <<>>
    /\ lastSizing' = [kind |-> "observed", proposal |-> proposal]
    /\ UNCHANGED <<handlers, phase, colsProp, rowsProp, onResizeProp,
                   onResizeRef, observer, children, autoFit, ink,
                   unmountedAt>>
    /\ CanvasHears
    /\ UNCHANGED <<inputVars, outputVars, orphans, shimVars, indexVars,
                   focusVars>>

\* A holder of the handle's terminal resizes the widget.
ExternalResize(size) ==
    /\ phase # "constructed"
    /\ LET res == TerminalResize(HostState, term, size, onResizeRef, handlers)
       IN  /\ Resized(res)
           /\ stale' = (stale \/ res.fired)
    /\ updated' = <<>>
    /\ lastSizing' = NoSizing
    /\ UNCHANGED <<handlers, phase, colsProp, rowsProp, onResizeProp,
                   onResizeRef, observer, children, autoFit, ink,
                   unmountedAt>>
    /\ CanvasHears
    /\ UNCHANGED <<inputVars, outputVars, orphans, shimVars, indexVars,
                   focusVars>>

\* updateDimensions() is called on endpoint ep directly.
Resync(ep) ==
    /\ run[ep].k < MaxResyncs
    /\ LET hs == updateDimensions(HostState, ep, term)
       IN  /\ columns' = hs.columns
           /\ rows' = hs.rows
           /\ seen' = hs.seen
           /\ cbCalls' = hs.cbCalls
           /\ run' = [run EXCEPT ![ep] =
                  [k |-> @.k + 1,
                   signals |-> @.signals + Len(hs.seen),
                   dims |-> IF @.k = 0
                            THEN Size(hs.columns[ep], hs.rows[ep])
                            ELSE @.dims]]
    /\ lastOp' = "resync"
    /\ updated' = <<>>
    /\ lastSizing' = NoSizing
    /\ UNCHANGED <<term, handlers, phase, colsProp, rowsProp, onResizeProp,
                   onResizeRef, dimensions, observer, children, autoFit,
                   stale, ink, unmountedAt>>
    /\ CanvasHears
    /\ UNCHANGED <<inputVars, outputVars, orphans, shimVars, indexVars,
                   focusVars>>

\* The host unmounts: the cleanups run instance.unmount() and disconnect
\* the observer.
Unmount ==
    /\ phase = "mounted"
    /\ phase' = "unmounted"
    /\ observer' = SizeCleanup(observer)
    /\ ink' = [ink EXCEPT !.unmounted = TRUE]
    /\ unmountedAt' = Len(delivered)
    /\ lastOp' = "unmount"
    /\ seen' = <<>>
    /\ cbCalls' = <<>>
    /\ updated' = <<>>
    /\ lastSizing' = NoSizing
    /\ UNCHANGED <<term, columns, rows, handlers, colsProp, rowsProp,
                   onResizeProp, onResizeRef, dimensions, run, children,
                   autoFit, stale>>
    /\ CanvasCleanup
    /\ UNCHANGED <<inputVars, outputVars, orphans, shimVars, indexVars,
                   focusVars>>

NextHost ==
    \/ \E p \in Proposals : MountEffects(p)
    \/ \E c \in ColsProps, r \in RowsProps, cb \in Callbacks, p \in Proposals :
          Rerender(c, r, cb, children, autoFit, focusedProp, p)
    \/ \E p \in Proposals : ContainerResize(p)
    \/ \E size \in ExternalSizes : ExternalResize(size)
    \/ \E ep \in Endpoints : Resync(ep)
    \/ Unmount

\* The fields of a TerminalReadableStream object.
StdinObject == [isTTY |-> TRUE, isRaw |-> isRaw, readable |-> TRUE, fd |-> 0,
                term |-> term, buffer |-> buffer]

\* The fields of the TerminalWritableStream object of endpoint ep.
OutputObject(ep) == [isTTY |-> TRUE, columns |-> columns[ep],
                     rows |-> rows[ep], writable |-> writable[ep],
                     term |-> term]

\* No mode or flow call made yet.
NoInputCall == [after |-> [buffer |-> <<>>, isRaw |-> TRUE], arg |-> Undefined,
                at |-> 0, before |-> [buffer |-> <<>>, isRaw |-> TRUE],
                op |-> "none", ret |-> "none"]

InitInput ==
    /\ buffer = <<>>
    /\ isRaw = TRUE
    /\ listening = FALSE
    /\ signals = <<>>
    /\ got = <<>>
    /\ delivered = <<>>
    /\ lastRead = [n |-> 0, size |-> NoSize, before |-> <<>>,
                   result |-> Null, after |-> <<>>]
    /\ reads = 0
    /\ listenedFrom = -1
    /\ lastInput = NoInputCall

\* The widget fires its data event with payload d: the handler of the
\* stream in stdinRef runs, and the handler of every dropped stream.
TermData(d) ==
    /\ Len(delivered) < MaxData
    /\ LET st == onData(StdinState, d)
       IN  /\ buffer' = st.buffer
           /\ signals' = st.signals
           /\ got' = st.got
    /\ delivered' = Append(delivered, d)
    /\ orphans' = [i \in DOMAIN orphans |-> Append(orphans[i], d)]
    /\ UNCHANGED <<isRaw, listening, lastRead, reads, listenedFrom, lastInput>>
    /\ UNCHANGED <<outputVars, hostVars, shimVars,
                   canvasVars, indexVars, focusVars>>

\* The consumer calls stdin.read(size) outside a readable listener.
Read(size) ==
    /\ reads < MaxReads
    /\ LET r == read(buffer, size)
       IN  /\ buffer' = r.buffer
           /\ got' = IF r.result = Null THEN got
                     ELSE Append(got, [chunk |-> r.result, during |-> 0])
           /\ lastRead' = [n |-> reads + 1, size |-> size, before |-> buffer,
                           result |-> r.result, after |-> r.buffer]
    /\ reads' = reads + 1
    /\ UNCHANGED <<isRaw, listening, signals, delivered, listenedFrom,
                   lastInput>>
    /\ UNCHANGED <<outputVars, hostVars, orphans, shimVars,
                   canvasVars, indexVars, focusVars>>

\* The consumer registers its drain-until-null listener: stdin.on("readable").
OnReadable ==
    /\ ~listening
    /\ listening' = TRUE
    /\ listenedFrom' = Len(delivered)
    /\ UNCHANGED <<buffer, isRaw, signals, got, delivered, lastRead, reads,
                   lastInput>>
    /\ UNCHANGED <<outputVars, hostVars, orphans, shimVars,
                   canvasVars, indexVars, focusVars>>

\* The consumer removes its listener: stdin.off("readable", listener).
OffReadable ==
    /\ listening
    /\ listening' = FALSE
    /\ listenedFrom' = -1
    /\ UNCHANGED <<buffer, isRaw, signals, got, delivered, lastRead, reads,
                   lastInput>>
    /\ UNCHANGED <<outputVars, hostVars, orphans, shimVars,
                   canvasVars, indexVars, focusVars>>

\* setRawMode(mode): records the flag.
SetRawMode(mode) ==
    /\ isRaw # mode
    /\ isRaw' = mode
    /\ UNCHANGED <<buffer, listening, signals, got, delivered, lastRead,
                   reads, listenedFrom, lastInput>>
    /\ UNCHANGED <<outputVars, hostVars, orphans, shimVars,
                   canvasVars, indexVars, focusVars>>

\* The buffer and the flag of the stream, as its mode and flow calls see
\* them.
StdinFlags == [buffer |-> buffer, isRaw |-> isRaw]

\* A setRawMode that returns without recording the mode.
setRawModeIgnored(st, mode) == [ret |-> "this", st |-> st]

\* setRawMode(mode): this.isRaw = mode; return this
setRawMode(st, mode) == [ret |-> "this", st |-> [st EXCEPT !.isRaw = mode]]

\* setEncoding(_encoding), resume(), pause(), ref(), unref(): return this
setEncoding(st, encoding) == [ret |-> "this", st |-> st]
resume(st) == [ret |-> "this", st |-> st]
pause(st) == [ret |-> "this", st |-> st]
ref(st) == [ret |-> "this", st |-> st]
unref(st) == [ret |-> "this", st |-> st]

\* A mode or flow call on stdin has returned res.
InputCalled(op, arg, res) ==
    /\ buffer' = res.st.buffer
    /\ isRaw' = res.st.isRaw
    /\ lastInput' = [after |-> res.st, arg |-> arg, at |-> Len(delivered),
                     before |-> StdinFlags, op |-> op, ret |-> res.ret]
    /\ UNCHANGED <<listening, signals, got, delivered, lastRead, reads,
                   listenedFrom>>
    /\ UNCHANGED <<outputVars, hostVars, orphans, shimVars,
                   canvasVars, indexVars, focusVars>>

SetRawModeCall(mode) ==
    InputCalled("setRawMode", IF mode THEN "true" ELSE "false",
                setRawMode(StdinFlags, mode))

SetEncodingCall(encoding) ==
    InputCalled("setEncoding", encoding, setEncoding(StdinFlags, encoding))

ResumeCall == InputCalled("resume", Undefined, resume(StdinFlags))

PauseCall == InputCalled("pause", Undefined, pause(StdinFlags))

RefCall == InputCalled("ref", Undefined, ref(StdinFlags))

UnrefCall == InputCalled("unref", Undefined, unref(StdinFlags))

\* Data events of the widget, and the mode and flow calls of a consumer.
NextInputCall ==
    \/ \E d \in Chunks : TermData(d)
    \/ \E mode \in BOOLEAN : SetRawModeCall(mode)
    \/ \E encoding \in Encodings : SetEncodingCall(encoding)
    \/ ResumeCall
    \/ PauseCall
    \/ RefCall
    \/ UnrefCall

\* Data events of the widget, a consumer that registers and removes its
\* readable listener, and read() calls made outside the listener.
NextQueue ==
    \/ \E d \in Chunks : TermData(d)
    \/ \E size \in Sizes : Read(size)
    \/ OnReadable
    \/ OffReadable

NextInput ==
    \/ \E d \in Chunks : TermData(d)
    \/ \E size \in Sizes : Read(size)
    \/ OnReadable
    \/ \E mode \in BOOLEAN : SetRawMode(mode)

\* The lifecycle of one host: mount, re-renders with other children or
\* auto-fit mode or with nothing changed, widget resizes, widget data
\* events, unmount.
NextLife ==
    \/ \E p \in LifeProposals : MountEffects(p)
    \/ \E ch \in Children, af \in BOOLEAN :
          Rerender(colsProp, rowsProp, onResizeProp, ch, af, focusedProp,
                   NoProposal)
    \/ \E p \in LifeProposals : ContainerResize(p)
    \/ \E size \in ExternalSizes : ExternalResize(size)
    \/ \E d \in LifeChunks : TermData(d)
    \/ Unmount

(***************************************************************************)
(* Canvas (src/unnamed/part_003)                                           *)
(***************************************************************************)
\* Canvas renders for the first time inside the mounted host's Ink
\* instance: useState({columns: stdout.columns, rows: stdout.rows}). Its
\* effect has not run yet.
CanvasRender ==
    /\ phase = "mounted"
    /\ canvas = "none"
    /\ canvas' = "rendered"
    /\ canvasSize' = [columns |-> columns["stdout"], rows |-> rows["stdout"]]
    /\ UNCHANGED canvasListeners
    /\ UNCHANGED <<inputVars, outputVars, hostVars, orphans, shimVars,
                   indexVars, focusVars>>

\* Canvas's effect runs: stdout.on("resize", onResize).
CanvasSubscribe ==
    /\ canvas = "rendered"
    /\ canvas' = "subscribed"
    /\ canvasListeners' = canvasListeners + 1
    /\ UNCHANGED canvasSize
    /\ UNCHANGED <<inputVars, outputVars, hostVars, orphans, shimVars,
                   indexVars, focusVars>>

\* Canvas is removed from the tree: the effect's cleanup runs.
CanvasUnmount ==
    /\ canvas \in {"rendered", "subscribed"}
    /\ CanvasCleanup
    /\ UNCHANGED <<inputVars, outputVars, hostVars, orphans, shimVars,
                   indexVars, focusVars>>

\* A Canvas inside a host whose widget is resized by the container
\* observer and by holders of the handle.
NextCanvas ==
    \/ \E p \in Proposals : MountEffects(p)
    \/ \E p \in Proposals : ContainerResize(p)
    \/ \E size \in ExternalSizes : ExternalResize(size)
    \/ CanvasRender
    \/ CanvasSubscribe
    \/ CanvasUnmount
    \/ Unmount

(***************************************************************************)
(* InkCanvas as src/index.ts defines it                                    *)
(***************************************************************************)
InitIndex == closures = <<>>

\* The handler the resize-listener effect subscribes: resync both
\* endpoints, then onResize?.(dims) with the onResize of the render the
\* effect ran for.
IndexHandler(hs, t, cb) ==
    LET h1 == updateDimensions(hs, "stdout", t)
        h2 == updateDimensions(h1, "stderr", t)
    IN  IF cb # NoCallback
        THEN [h2 EXCEPT !.cbCalls = Append(@, [fn |-> cb, dims |-> t])]
        ELSE h2

\* The widget fires its resize event: every subscribed handler runs, in
\* subscription order.
RECURSIVE IndexFire(_, _, _)
IndexFire(hs, t, cls) ==
    IF cls = <<>> THEN hs
    ELSE IndexFire(IndexHandler(hs, t, Head(cls)), t, Tail(cls))

\* terminal.resize(cols, rows)
IndexTerminalResize(hs, t, size, cls) ==
    IF size = t
    THEN [term |-> t, hs |-> hs, fired |-> FALSE]
    ELSE [term |-> size, hs |-> IndexFire(hs, size, cls), fired |-> TRUE]

\* The outcome res of a terminal.resize() becomes the state.
IndexResized(res) ==
    /\ term' = res.term
    /\ columns' = res.hs.columns
    /\ rows' = res.hs.rows
    /\ seen' = res.hs.seen
    /\ cbCalls' = res.hs.cbCalls
    /\ lastOp' = IF res.fired THEN "resize" ELSE "noresize"
    /\ run' = IF res.fired THEN NoRun ELSE run

\* The effects of the first commit, in source order: rerender(children),
\* subscribe the resize handler, open the widget, run the size effect.
IndexMount(proposal) ==
    /\ phase = "constructed"
    /\ phase' = "mounted"
    /\ LET tree == Wrap(children, FALSE, term)
       IN  /\ ink' = [ink EXCEPT !.tree = tree]
           /\ updated' = <<Update(tree)>>
    /\ closures' = Append(closures, onResizeProp)
    /\ IF colsProp # Absent /\ rowsProp # Absent
       THEN /\ IndexResized(IndexTerminalResize(HostState, term,
                    Size(colsProp, rowsProp), Append(closures, onResizeProp)))
            /\ UNCHANGED observer
       ELSE /\ IndexResized(
                   IF proposal # NoProposal
                   THEN IndexTerminalResize(HostState, term,
                            Size(IF colsProp # Absent THEN colsProp
                                 ELSE proposal.cols,
                                 IF rowsProp # Absent THEN rowsProp
                                 ELSE proposal.rows),
                            Append(closures, onResizeProp))
                   ELSE [term |-> term, hs |-> HostState, fired |-> FALSE])
            /\ observer' = Attached(observer, TRUE)
    /\ lastSizing' = [kind |-> "effect", proposal |-> proposal]
    /\ CanvasHears
    /\ UNCHANGED <<handlers, colsProp, rowsProp, onResizeProp, onResizeRef,
                   dimensions, children, autoFit, stale, unmountedAt>>
    /\ focusLog' = FocusEffect(focusLog, focusedProp)
    /\ UNCHANGED focusedProp
    /\ UNCHANGED <<inputVars, outputVars, orphans, shimVars>>

\* The component function runs again with props onResize and children:
\* every useRef argument is evaluated again; when onResize changed, the
\* cleanup of the resize-listener effect runs, instance.unmount(), and the
\* effect subscribes one more handler; when children changed, the rerender
\* effect runs.
IndexRerender(cb, ch) ==
    /\ phase = "mounted"
    /\ Len(orphans) + 1 < MaxRenders
    /\ orphans' = Append(orphans, <<>>)
    /\ onResizeProp' = cb
    /\ children' = ch
    /\ LET tree == IF ch # children THEN Wrap(ch, FALSE, term) ELSE EmptyBox
       IN  /\ ink' = [entries |-> ink.entries + 1, tree |-> tree,
                      unmounted |-> (ink.unmounted \/ cb # onResizeProp)]
           /\ updated' = IF ch # children THEN <<Update(tree)>> ELSE <<>>
    /\ closures' = IF cb # onResizeProp THEN Append(closures, cb)
                   ELSE closures
    /\ lastOp' = "noresize"
    /\ seen' = <<>>
    /\ cbCalls' = <<>>
    /\ lastSizing' = NoSizing
    /\ CanvasHears
    /\ UNCHANGED <<term, columns, rows, handlers, phase, colsProp, rowsProp,
                   onResizeRef, dimensions, observer, run, autoFit, stale,
                   unmountedAt>>
    /\ UNCHANGED <<inputVars, outputVars, shimVars, focusVars>>

\* The widget is resized, by the container observer's fit or by a holder
\* of the handle's terminal.
IndexResize(size) ==
    /\ phase # "constructed"
    /\ IndexResized(IndexTerminalResize(HostState, term, size, closures))
    /\ updated' = <<>>
    /\ lastSizing' = NoSizing
    /\ CanvasHears
    /\ UNCHANGED <<handlers, phase, colsProp, rowsProp, onResizeProp,
                   onResizeRef, dimensions, observer, children, autoFit,
                   stale, ink, unmountedAt>>
    /\ UNCHANGED <<inputVars, outputVars, orphans, shimVars, indexVars,
                   focusVars>>

\* The host unmounts: the cleanups run instance.unmount() and disconnect
\* the observer; nothing disposes the resize handlers.
IndexUnmount ==
    /\ phase = "mounted"
    /\ phase' = "unmounted"
    /\ observer' = SizeCleanup(observer)
    /\ ink' = [ink EXCEPT !.unmounted = TRUE]
    /\ lastOp' = "unmount"
    /\ seen' = <<>>
    /\ cbCalls' = <<>>
    /\ updated' = <<>>
    /\ lastSizing' = NoSizing
    /\ CanvasCleanup
    /\ UNCHANGED <<term, columns, rows, handlers, colsProp, rowsProp,
                   onResizeProp, onResizeRef, dimensions, run, children,
                   autoFit, stale, unmountedAt>>
    /\ UNCHANGED <<inputVars, outputVars, orphans, shimVars, indexVars,
                   focusVars>>

\* The src/index.ts host: mount, re-renders with another onResize or other
\* children, widget resizes, unmount.
NextIndex ==
    \/ \E p \in Proposals : IndexMount(p)
    \/ \E cb \in Callbacks, ch \in Children : IndexRerender(cb, ch)
    \/ \E size \in ExternalSizes : IndexResize(size)
    \/ IndexUnmount

(***************************************************************************)
(* The process shim (src/src/shims/process.ts)                             *)
(***************************************************************************)
\* What the shim's functions can touch: the timers they scheduled and the
\* callbacks invoked so far; turn is the turn the caller runs in.
ShimState == [invoked |-> invoked, timers |-> timers, turn |-> turnNo]

\* A nextTick that calls the callback before it returns.
nextTickSync(sh, callback, args) ==
    [sh EXCEPT !.invoked = Append(@, [args |-> args, callback |-> callback,
                                      turn |-> sh.turn])]

\* nextTick(callback, ...args): setTimeout(() => callback(...args), 0)
nextTick(sh, callback, args) ==
    [sh EXCEPT !.timers = Append(@, [args |-> args, callback |-> callback])]

\* `${code}` of the exit message: "undefined" when no code was passed
CodeText(args) ==
    IF Len(args) = 0
    THEN <<"u", "n", "d", "e", "f", "i", "n", "e", "d">>
    ELSE NumToString(args[1])

\* An exit that returns to its caller.
exitReturns(sh, args) ==
    [message |-> <<>>, outcome |-> "returns", sh |-> sh]

\* exit(code): throw new Error(`process.exit(${code}) called`)
exit(sh, args) ==
    [message |-> <<"p", "r", "o", "c", "e", "s", "s", ".", "e", "x", "i", "t",
                   "(">> \o CodeText(args) \o
                 <<")", " ", "c", "a", "l", "l", "e", "d">>,
     outcome |-> "throws", sh |-> sh]

NoExit == [args |-> <<>>, message |-> <<>>, op |-> "none", outcome |-> "none"]

\* The shim module has been loaded; nothing is running.
InitShim ==
    /\ timers = <<>>
    /\ invoked = <<>>
    /\ turnNo = 0
    /\ running = FALSE
    /\ ticks = <<>>
    /\ lastExit = NoExit

\* The event loop starts a task other than a timer (an event handler, a
\* script).
BeginTurn ==
    /\ ~running
    /\ turnNo < MaxTurns
    /\ running' = TRUE
    /\ turnNo' = turnNo + 1
    /\ UNCHANGED <<timers, invoked, ticks, lastExit>>
    /\ UNCHANGED <<inputVars, outputVars, hostVars, orphans,
                   canvasVars, indexVars, focusVars>>

\* The running code calls nextTick(callback, ...args).
NextTickCall(callback, args) ==
    /\ running
    /\ Len(ticks) < MaxTicks
    /\ LET sh == nextTick(ShimState, callback, args)
       IN  /\ timers' = sh.timers
           /\ invoked' = sh.invoked
    /\ ticks' = Append(ticks, [args |-> args, callback |-> callback,
                               turn |-> turnNo])
    /\ UNCHANGED <<turnNo, running, lastExit>>
    /\ UNCHANGED <<inputVars, outputVars, hostVars, orphans,
                   canvasVars, indexVars, focusVars>>

\* The running code calls exit(...args); it catches the error and goes on,
\* or the error ends the turn.
ExitCall(args, caught) ==
    /\ running
    /\ LET res == exit(ShimState, args)
       IN  /\ timers' = res.sh.timers
           /\ invoked' = res.sh.invoked
           /\ lastExit' = [args |-> args, message |-> res.message,
                           op |-> "exit", outcome |-> res.outcome]
           /\ running' = (res.outcome = "returns" \/ caught)
    /\ UNCHANGED <<turnNo, ticks>>
    /\ UNCHANGED <<inputVars, outputVars, hostVars, orphans,
                   canvasVars, indexVars, focusVars>>

\* The running code returns to the event loop.
EndTurn ==
    /\ running
    /\ running' = FALSE
    /\ UNCHANGED <<timers, invoked, turnNo, ticks, lastExit>>
    /\ UNCHANGED <<inputVars, outputVars, hostVars, orphans,
                   canvasVars, indexVars, focusVars>>

\* The event loop, with nothing running, runs the oldest pending timer in a
\* turn of its own: () => callback(...args).
TimerFires ==
    /\ ~running
    /\ timers # <<>>
    /\ turnNo < MaxTurns
    /\ turnNo' = turnNo + 1
    /\ running' = TRUE
    /\ timers' = Tail(timers)
    /\ invoked' = Append(invoked, [args |-> Head(timers).args,
                                   callback |-> Head(timers).callback,
                                   turn |-> turnNo + 1])
    /\ UNCHANGED <<ticks, lastExit>>
    /\ UNCHANGED <<inputVars, outputVars, hostVars, orphans,
                   canvasVars, indexVars, focusVars>>

\* Turns of the event loop in which code calls nextTick, and the timers
\* it scheduled.
NextTick ==
    \/ BeginTurn
    \/ \E callback \in TickCallbacks, args \in TickArgs :
          NextTickCall(callback, args)
    \/ EndTurn
    \/ TimerFires

\* Turns of the event loop in which code calls nextTick and exit.
NextExit ==
    \/ BeginTurn
    \/ \E callback \in TickCallbacks, args \in TickArgs :
          NextTickCall(callback, args)
    \/ \E args \in ExitArgs, caught \in BOOLEAN : ExitCall(args, caught)
    \/ EndTurn

\* A host re-rendered with any focused, cols, rows and onResize props, its
\* widget resized by holders of the handle.
NextFocus ==
    \/ \E p \in LifeProposals : MountEffects(p)
    \/ \E c \in ColsProps, r \in RowsProps, cb \in Callbacks, fo \in BOOLEAN :
          Rerender(c, r, cb, children, autoFit, fo, NoProposal)
    \/ \E size \in ExternalSizes : ExternalResize(size)
    \/ Unmount

Init == InitInput /\ InitOutput /\ InitHost /\ InitShim /\ InitCanvas /\ InitIndex
    /\ InitFocus(FALSE)

InitLifecycle ==
    InitInput /\ InitOutput /\ InitLife /\ InitShim /\ InitCanvas /\ InitIndex
    /\ InitFocus(FALSE)

InitStreams ==
    InitInput /\ InitOutput /\ InitPlainHost /\ InitShim /\ InitCanvas /\ InitIndex
    /\ InitFocus(FALSE)

\* the host of the focus specification: the focused prop true or false
InitFocusing ==
    /\ InitInput /\ InitOutput /\ InitHost /\ InitShim /\ InitCanvas /\ InitIndex
    /\ \E fo \in BOOLEAN : InitFocus(fo)

Spec == Init /\ [][NextHost]_vars

SpecFocus == InitFocusing /\ [][NextFocus]_vars

SpecInput == InitStreams /\ [][NextInput]_vars

SpecInputCall == InitStreams /\ [][NextInputCall]_vars

SpecQueue == InitStreams /\ [][NextQueue]_vars

SpecWrite == InitStreams /\ [][NextWrite]_vars

SpecOutput == InitStreams /\ [][NextOutput]_vars

SpecCall == InitStreams /\ [][NextCall]_vars

SpecLife == InitLifecycle /\ [][NextLife]_vars

SpecCanvas == Init /\ [][NextCanvas]_vars

SpecIndex == Init /\ [][NextIndex]_vars

SpecTick == InitStreams /\ [][NextTick]_vars

SpecExit == InitStreams /\ [][NextExit]_vars

(***************************************************************************)
(* Claims about the input adapter                                          *)
(***************************************************************************)
\* the non-null values read() has returned, in the order it returned them
GotChunks == [i \in 1..Len(got) |-> got[i].chunk]

\* C1: the values read() returned, followed by what is still queued, are
\* exactly the delivered chunks in arrival order (nothing reordered, merged,
\* split, dropped or duplicated); read() returns null exactly when the queue
\* was empty, and then changes nothing; otherwise it returns the oldest chunk
\* whole, whatever the size argument.
C1_ReadFifo ==
    /\ GotChunks \o buffer = delivered
    /\ (lastRead.result = Null) <=> (lastRead.before = <<>>)
    /\ lastRead.before = <<>> => lastRead.after = <<>>
    /\ lastRead.before # <<>> =>
          /\ lastRead.result = Head(lastRead.before)
          /\ lastRead.after = Tail(lastRead.before)

\* N >= 2 data events, then N + 1 reads: the N chunks in order, then null.
C1_Witness ==
    /\ ~listening
    /\ Len(delivered) >= 2
    /\ delivered[1] # delivered[2]
    /\ Len(signals) = Len(delivered)
    /\ reads = Len(delivered) + 1
    /\ GotChunks = delivered
    /\ lastRead.result = Null
    /\ lastRead.size # NoSize

\* C5: one readable signal per data event, emitted when the event's payload
\* is already the tail of the queue; k events without a read leave k signals
\* and k queued chunks.
C5_SignalPerEvent ==
    /\ Len(signals) = Len(delivered)
    /\ \A i \in 1..Len(signals) :
          /\ signals[i] # <<>>
          /\ signals[i][Len(signals[i])] = delivered[i]
    /\ got = <<>> => /\ buffer = delivered
                     /\ Len(signals) = Len(buffer)

\* two data events arrived before anything was read
C5_Witness ==
    /\ Len(delivered) >= 2
    /\ got = <<>>
    /\ Len(signals) = 2
    /\ Len(signals[2]) = 2

\* C6: with a drain-until-null listener registered before the first data
\* event, every chunk is returned exactly once, during the signal raised for
\* it, and the queue is empty after each signal.
C6_DrainOnSignal ==
    listenedFrom = 0 =>
        /\ buffer = <<>>
        /\ GotChunks = delivered
        /\ \A i \in 1..Len(got) : got[i].during = i

\* the listener has handled two signals for two different chunks
C6_Witness ==
    /\ listenedFrom = 0
    /\ Len(delivered) >= 2
    /\ delivered[1] # delivered[2]
    /\ Len(got) = Len(delivered)


(***************************************************************************)
(* Claims about the output adapter                                         *)
(***************************************************************************)
\* positions of the line-feeds of s not immediately preceded by a
\* carriage-return
BareLFs(s) == {i \in 1..Len(s) : s[i] = LF /\ (i = 1 \/ s[i - 1] # CR)}

\* where character i of s stands once a carriage-return has been inserted
\* before each bare line-feed
Shifted(s, i) == i + Cardinality({b \in BareLFs(s) : b <= i})

\* out is s with a carriage-return inserted before each bare line-feed and
\* nothing else changed
IsNormalized(s, out) ==
    /\ Len(out) = Len(s) + Cardinality(BareLFs(s))
    /\ \A i \in 1..Len(s) :
          /\ out[Shifted(s, i)] = s[i]
          /\ i \in BareLFs(s) => out[Shifted(s, i) - 1] = CR

\* C2: write(s) forwards exactly one string, s with every bare line-feed
\* replaced by carriage-return + line-feed and every other character, the
\* line-feeds already preceded by a carriage-return included, unchanged;
\* "a\nb\r\nc" is forwarded as "a\r\nb\r\nc".
C2_NewlineNormalization ==
    \A k \in 1..Len(calls) :
        calls[k].op = "write" =>
            /\ calls[k].n = 1
            /\ IsNormalized(calls[k].chunk, termWritten[calls[k].at + 1])
            /\ calls[k].chunk = Example =>
                  termWritten[calls[k].at + 1] = ExampleForwarded

\* a chunk that holds both a bare line-feed and a carriage-return +
\* line-feed has been written
C2_Witness ==
    \E k \in 1..Len(calls) :
        /\ calls[k].op = "write"
        /\ calls[k].chunk = <<LF, CR, LF>>
        /\ termWritten[calls[k].at + 1] = <<CR, LF, CR, LF>>

\* what one call forwards to a widget that has received nothing yet
Forwarded(c) ==
    CASE c.op = "write" -> write(<<>>, c.chunk)
      [] c.op = "clearLine" -> clearLine(<<>>, c.args[1])
      [] c.op = "clearScreenDown" -> clearScreenDown(<<>>)
      [] c.op = "cursorTo" -> cursorTo(<<>>, c.args)
      [] c.op = "moveCursor" -> moveCursor(<<>>, c.args[1], c.args[2])

RECURSIVE ForwardedUpTo(_)
ForwardedUpTo(k) ==
    IF k = 0 THEN <<>> ELSE ForwardedUpTo(k - 1) \o Forwarded(calls[k])

\* C4: when a call on either endpoint has returned, the widget has received
\* what every call so far forwards, in the global order of the calls,
\* nothing buffered, reordered, coalesced or dropped.
C4_CallOrder ==
    /\ termWritten = ForwardedUpTo(Len(calls))
    /\ \A k \in 1..Len(calls) :
          calls[k].at = Len(ForwardedUpTo(k - 1))

\* a call on one endpoint followed by a write on the other
C4_Witness ==
    /\ Len(calls) >= 2
    /\ calls[1].ep # calls[2].ep
    /\ calls[1].n >= 1
    /\ calls[2].op = "write"
    /\ Len(termWritten) = calls[1].n + 1

\* the strings of a sequence, joined
RECURSIVE Joined(_)
Joined(strs) == IF strs = <<>> THEN <<>> ELSE strs[1] \o Joined(Tail(strs))

\* C27 (as stated): when every call so far was a write on one endpoint,
\* what the widget received in total is the normalization of the chunks
\* joined: a line-feed that opens a chunk is left alone when the chunk
\* before it ended with a carriage-return.
C27_NormalizationAcrossWrites ==
    (\A k \in 1..Len(calls) :
        calls[k].op = "write" /\ calls[k].ep = calls[1].ep) =>
        Joined(termWritten) =
            ReplaceBareLF(Joined([k \in 1..Len(calls) |-> calls[k].chunk]), 1)

(***************************************************************************)
(* Claims about resize propagation                                         *)
(***************************************************************************)
\* object obj has a field called name / reports value v under that name
HasField(obj, name) == name \in DOMAIN obj
Reports(obj, name, v) == HasField(obj, name) /\ obj[name] = v

\* endpoint e, as a listener found it, holds the widget's size
Fresh(snapshot, e) ==
    /\ snapshot.columns[e] = snapshot.term.cols
    /\ snapshot.rows[e] = snapshot.term.rows

C7_DimensionsMirrorWidget ==
    phase \in {"constructed", "mounted"} =>
        \A e \in Endpoints :
            /\ columns[e] = term.cols
            /\ rows[e] = term.rows
            /\ columns[e] \in Nat \ {0}
            /\ rows[e] \in Nat \ {0}
            /\ getWindowSize(e) = <<term.cols, term.rows>>

\* the mounted host has handled an auto-fit resize away from the default
C7_Witness ==
    /\ phase = "mounted"
    /\ observer > 0
    /\ lastOp = "resize"
    /\ term = Size(100, 30)
    /\ getWindowSize("stderr") = <<100, 30>>

SignalsOn(e) == Cardinality({i \in 1..Len(seen) : seen[i].ep = e})

\* C9: a widget resize event on a mounted host makes each output endpoint
\* emit exactly one resize signal, whatever renders came before.
C9_OneSignalPerResize ==
    (phase = "mounted" /\ lastOp = "resize") =>
        \A e \in Endpoints : SignalsOn(e) = 1

\* a resize was dispatched after the onResize prop had been changed
C9_Witness ==
    /\ phase = "mounted"
    /\ lastOp = "resize"
    /\ onResizeProp # onResizeRef
    /\ SignalsOn("stdout") = 1
    /\ SignalsOn("stderr") = 1

\* C28 (as stated): a widget resize on a mounted host calls the onResize
\* callback most recently supplied as a prop, exactly once, with the new
\* dimensions (and calls nothing when the latest prop supplies none).
C28_LatestCallback ==
    (phase = "mounted" /\ lastOp = "resize") =>
        cbCalls = IF onResizeProp = NoCallback
                  THEN <<>>
                  ELSE <<[dims |-> term, fn |-> onResizeProp]>>

\* C10: after k direct updateDimensions() calls on an endpoint with no
\* widget resize in between, its columns and rows are what they were after
\* the first call, and k resize signals have been emitted.
C10_ResyncIdempotent ==
    \A e \in Endpoints :
        run[e].k >= 1 =>
            /\ Size(columns[e], rows[e]) = run[e].dims
            /\ run[e].signals = run[e].k

\* two calls in a row on the same endpoint
C10_Witness ==
    /\ lastOp = "resync"
    /\ run["stdout"].k = 2
    /\ run["stdout"].signals = 2
    /\ run["stdout"].dims = Size(term.cols, term.rows)

(***************************************************************************)
(* Claims about one call on an output endpoint                             *)
(***************************************************************************)
\* what the latest call did, by kind of event
WidgetWritesOf(call) == SelectSeq(call.trace, LAMBDA e : e.ev = "term.write")
CallbacksOf(call) == SelectSeq(call.trace, LAMBDA e : e.ev = "callback")
\* the calls that report success with true
TrueOps == {"write", "clearLine", "clearScreenDown", "cursorTo", "moveCursor"}

\* C11: write (string or bytes, with or without an encoding, with or without
\* a callback, before or after the widget is disposed) returns true, makes
\* exactly one widget write, and runs a supplied callback exactly once, after
\* the widget write and before returning; clearLine, clearScreenDown,
\* cursorTo and moveCursor return true and run a supplied callback exactly
\* once; no callback runs when none is supplied.
C11_TrueAndCallbackOnce ==
    lastCall.op \in TrueOps =>
        /\ lastCall.ret = "true"
        /\ lastCall.op = "write" => Len(WidgetWritesOf(lastCall)) = 1
        /\ IF lastCall.cb = Undefined
           THEN CallbacksOf(lastCall) = <<>>
           ELSE /\ Len(CallbacksOf(lastCall)) = 1
                /\ lastCall.trace[Len(lastCall.trace)] =
                       [data |-> <<lastCall.cb>>, ev |-> "callback"]

\* C11 witness: a byte chunk written with the callback as second argument on
\* a disposed widget; the widget write came first, the callback second.
C11_Witness ==
    /\ lastCall.op = "write"
    /\ lastCall.kind = "bytes"
    /\ lastCall.disposed
    /\ lastCall.cb = "cb"
    /\ Len(lastCall.trace) = 2
    /\ lastCall.trace[1].ev = "term.write"
    /\ lastCall.trace[2].ev = "callback"

\* C12 (as stated): a write made after the widget was disposed returns true
\* and forwards nothing to the widget.
C12_NoForwardAfterDispose ==
    (lastCall.op = "write" /\ lastCall.disposed) =>
        /\ lastCall.ret = "true"
        /\ WidgetWritesOf(lastCall) = <<>>

\* C13 (as stated): end(chunk?, callback?) forwards a given chunk as a write
\* of that chunk with that callback would, and leaves the endpoint closed.
C13_EndForwardsAndCloses ==
    lastCall.op = "end" =>
        /\ lastCall.kind # Undefined =>
               lastCall.trace =
                   writeCall("string", lastCall.str, lastCall.cb, Undefined).trace
        /\ ~writable[lastCall.ep]

\* the decimal text of the 1-based coordinates the calls use
DecimalText(n) ==
    CASE n = 1 -> <<"1">> [] n = 4 -> <<"4">> [] n = 6 -> <<"6">>
      [] n = 10 -> <<"1", "0">>

\* C20: cursorTo(x, y) writes exactly ESC [ y+1 ; x+1 H, also for y = 0;
\* cursorTo(x), with y omitted or replaced by a callback, writes exactly
\* ESC [ x+1 G; cursorTo(3, 5) gives ESC[6;4H and cursorTo(3) gives ESC[4G;
\* no other coordinates give the same sequence.
C20_CursorToEncoding ==
    lastCall.op = "cursorTo" =>
        LET w == WidgetWritesOf(lastCall)
            a == lastCall.args
        IN  /\ Len(w) = 1
            /\ w[1].data =
                   IF Len(a) = 2
                   THEN <<ESC, "[">> \o DecimalText(a[2] + 1) \o <<";">>
                        \o DecimalText(a[1] + 1) \o <<"H">>
                   ELSE <<ESC, "[">> \o DecimalText(a[1] + 1) \o <<"G">>
            /\ a = <<3, 5>> => w[1].data = <<ESC, "[", "6", ";", "4", "H">>
            /\ a = <<3>> => w[1].data = <<ESC, "[", "4", "G">>
            /\ \A b \in CursorArgs \ {a} : cursorTo(<<>>, b) # <<w[1].data>>

\* C20 witness: cursorTo(3, 0, callback) wrote the two-coordinate form.
C20_Witness ==
    /\ lastCall.op = "cursorTo"
    /\ lastCall.args = <<3, 0>>
    /\ lastCall.cb = "cb"
    /\ WidgetWritesOf(lastCall) =
           <<[data |-> <<ESC, "[", "1", ";", "4", "H">>, ev |-> "term.write"]>>

\* the strings a call passed to term.write(), in order
WrittenBy(call) ==
    [i \in 1..Len(WidgetWritesOf(call)) |-> WidgetWritesOf(call)[i].data]

\* C21: clearLine(dir) writes exactly one sequence: ESC[1K for dir = -1,
\* ESC[0K for dir = 1, ESC[2K for dir = 0, for any other number and when
\* dir is omitted; clearScreenDown() writes exactly ESC[J.
C21_EraseSequences ==
    /\ lastCall.op = "clearLine" =>
           WrittenBy(lastCall) =
               CASE lastCall.args = <<-1>> -> << <<ESC, "[", "1", "K">> >>
                 [] lastCall.args = <<1>> -> << <<ESC, "[", "0", "K">> >>
                 [] OTHER -> << <<ESC, "[", "2", "K">> >>
    /\ lastCall.op = "clearScreenDown" =>
           WrittenBy(lastCall) = << <<ESC, "[", "J">> >>

\* C21 witness: clearLine() without a direction erased the whole line.
C21_Witness ==
    /\ lastCall.op = "clearLine"
    /\ lastCall.args = <<OmittedDir>>
    /\ WrittenBy(lastCall) = << <<ESC, "[", "2", "K">> >>

\* the decimal text of the counts the moves use
CountText(n) ==
    CASE n = 1 -> <<"1">> [] n = 2 -> <<"2">> [] n = 10 -> <<"1", "0">>
      [] n = 12 -> <<"1", "2">>

\* the one sequence a non-zero component d gives: the count |d|, then the
\* letter for its sign
MoveText(d, positive, negative) ==
    IF d > 0 THEN << <<ESC, "[">> \o CountText(d) \o <<positive>> >>
    ELSE IF d < 0 THEN << <<ESC, "[">> \o CountText(-d) \o <<negative>> >>
    ELSE <<>>

\* C22: moveCursor(dx, dy) writes ESC[{dx}C or ESC[{-dx}D for a non-zero
\* dx, then ESC[{dy}B or ESC[{-dy}A for a non-zero dy; a zero component
\* writes nothing, so moveCursor(0, 0) writes nothing at all.
C22_RelativeMoves ==
    lastCall.op = "moveCursor" =>
        /\ WrittenBy(lastCall) = MoveText(lastCall.args[1], "C", "D")
                                 \o MoveText(lastCall.args[2], "B", "A")
        /\ lastCall.args = <<0, 0>> => lastCall.trace = Invoke(<<>>, lastCall.cb)

\* C22 witness: moveCursor(-12, 2) wrote ESC[12D and then ESC[2B.
C22_Witness ==
    /\ lastCall.op = "moveCursor"
    /\ lastCall.args = <<-12, 2>>
    /\ WrittenBy(lastCall) = << <<ESC, "[", "1", "2", "D">>,
                                <<ESC, "[", "2", "B">> >>

(***************************************************************************)
(* Claims about the mode and flow calls of the input adapter               *)
(***************************************************************************)
\* C26: setRawMode(b) leaves the flag at b, the other calls leave it as it
\* was; each call returns the stream and leaves the queue as it was; and
\* whatever calls were made, every data event has been queued and
\* signalled: the queue holds the delivered chunks in order and the i-th
\* signal found the first i of them.
C26_ModeAndFlowCalls ==
    /\ lastInput.op # "none" =>
           /\ lastInput.ret = "this"
           /\ lastInput.after.buffer = lastInput.before.buffer
           /\ lastInput.after.isRaw =
                  IF lastInput.op = "setRawMode" THEN lastInput.arg = "true"
                  ELSE lastInput.before.isRaw
    /\ buffer = delivered
    /\ Len(signals) = Len(delivered)
    /\ \A i \in 1..Len(signals) : signals[i] = SubSeq(delivered, 1, i)

\* C26 witness: a data event arrived after setRawMode(false) and was queued
\* and signalled.
C26_Witness ==
    /\ lastInput.op = "setRawMode"
    /\ lastInput.arg = "false"
    /\ ~isRaw
    /\ lastInput.at < Len(delivered)
    /\ Len(signals) = Len(delivered)
    /\ buffer = delivered

(***************************************************************************)
(* Claims about the lifecycle of the host                                  *)
(***************************************************************************)
\* handlers subscribed to the data event of the widget in terminalRef: the
\* one of the stream in stdinRef and one for each dropped stream
DataHandlers == 1 + Len(orphans)

\* C14 (as stated): while the host is mounted exactly one handler is
\* subscribed to the widget's data event, and no object other than the
\* input adapter's queue has taken a data event.
C14_OneHandlerOneQueue ==
    phase = "mounted" =>
        /\ DataHandlers = 1
        /\ \A i \in DOMAIN orphans : orphans[i] = <<>>

\* C15 (as stated): render() is entered once per mounted host, and once
\* the host is mounted the instance never shows the initial empty tree
\* again.
C15_RenderEnteredOnce ==
    /\ ink.entries = 1
    /\ phase = "mounted" => ink.tree # EmptyBox

\* C16 (as stated): once the host is unmounted the Ink instance is
\* unmounted, no observer is attached, a widget data event no longer
\* reaches the input queue or emits readable, and a widget resize event no
\* longer reaches a listener of an endpoint or the onResize callback.
C16_UnmountDetaches ==
    phase = "unmounted" =>
        /\ ink.unmounted
        /\ observer = 0
        /\ Len(signals) = unmountedAt
        /\ Len(buffer) = unmountedAt
        /\ lastOp = "resize" => (seen = <<>> /\ cbCalls = <<>>)

\* C17 (as stated): once the host is unmounted the widget is disposed and
\* the Ink instance is unmounted.
C17_UnmountDisposesWidget ==
    phase = "unmounted" => (disposed /\ ink.unmounted)

BothFixed == colsProp # Absent /\ rowsProp # Absent

\* what both readings of the claim share: with cols and rows fixed the
\* size effect leaves the widget at exactly that size and no observer is
\* attached; otherwise an observer is attached
FixedOrObserved ==
    phase = "mounted" =>
        IF BothFixed
        THEN /\ observer = 0
             /\ lastSizing.kind = "effect" => term = Size(colsProp, rowsProp)
        ELSE observer = 1

C30_EmptyProposalAndSingleObserver ==
    /\ [](/\ observer <= 1
          /\ BothFixed => observer = 0
          /\ phase = "unmounted" => observer = 0)
    /\ [][(/\ lastSizing'.kind # "none"
           /\ lastSizing'.proposal = NoProposal
           /\ ~(colsProp' # Absent /\ rowsProp' # Absent)) =>
              (/\ term' = term
               /\ columns' = columns
               /\ rows' = rows
               /\ seen' = <<>>
               /\ lastOp' = "noresize")]_vars

\* C30 witness: after cols was changed to 120 on a mounted auto-fit host
\* whose widget had been fitted to 100 x 30, the one observer reported a
\* change with an empty proposal.
C30_Witness ==
    /\ phase = "mounted"
    /\ colsProp = 120
    /\ rowsProp = Absent
    /\ observer = 1
    /\ lastSizing = [kind |-> "observed", proposal |-> NoProposal]
    /\ lastOp = "noresize"
    /\ term = Size(100, 30)

(***************************************************************************)
(* Claims about the process shim                                           *)
(***************************************************************************)
\* sub occurs in str as a run of consecutive characters
Occurs(sub, str) ==
    \E i \in 0..(Len(str) - Len(sub)) : SubSeq(str, i + 1, i + Len(sub)) = sub

\* the decimal text of the exit codes used
ExitCodeText(code) ==
    CASE code = 0 -> <<"0">> [] code = 1 -> <<"1">> [] code = -1 -> <<"-", "1">>

\* C24: exit, with any code or none, throws an error whose message contains
\* the code and never returns normally; the call changes nothing of the
\* shim's state (pending timers, callbacks invoked).
C24_ExitAlwaysThrows ==
    /\ [](lastExit.op = "exit" =>
             /\ lastExit.outcome = "throws"
             /\ Len(lastExit.args) = 1 =>
                    Occurs(ExitCodeText(lastExit.args[1]), lastExit.message))
    /\ [][lastExit' # lastExit =>
             (/\ timers' = timers
              /\ invoked' = invoked
              /\ ticks' = ticks
              /\ turnNo' = turnNo)]_vars

\* C24 witness: exit(-1) was called while a nextTick timer was pending
C24_Witness ==
    /\ lastExit.op = "exit"
    /\ lastExit.args = <<-1>>
    /\ lastExit.outcome = "throws"
    /\ Occurs(<<"(", "-", "1", ")">>, lastExit.message)
    /\ timers # <<>>

\* C25: the callbacks invoked so far are those of the first nextTick calls,
\* in call order, each invoked once with exactly the arguments supplied and
\* in a later turn than the call; every other call is still pending.
C25_NextTickDeferred ==
    /\ Len(invoked) + Len(timers) = Len(ticks)
    /\ \A i \in 1..Len(invoked) :
           /\ invoked[i].callback = ticks[i].callback
           /\ invoked[i].args = ticks[i].args
           /\ invoked[i].turn > ticks[i].turn
    /\ \A j \in 1..Len(timers) :
           /\ timers[j].callback = ticks[Len(invoked) + j].callback
           /\ timers[j].args = ticks[Len(invoked) + j].args

\* C25 witness: nextTick(f, 1, 2) and nextTick(g) were called in one turn
\* and both callbacks have run, and a third call was made from a callback
C25_Witness ==
    /\ Len(invoked) = 2
    /\ Len(ticks) = 3
    /\ ticks[1].turn = ticks[2].turn
    /\ invoked[1] = [args |-> <<1, 2>>, callback |-> "f",
                     turn |-> ticks[1].turn + 1]
    /\ invoked[2].callback = "g"
    /\ invoked[2].args = <<>>
    /\ ticks[3].turn = invoked[1].turn

(***************************************************************************)
(* Claims about Canvas and about the src/index.ts host                     *)
(***************************************************************************)
\* C23 (as stated): between resize dispatches, a Canvas that has rendered
\* and subscribed holds the current columns and rows of stdout, however
\* resize signals interleave with its initial read and its subscription;
\* after it is unmounted none of its listeners is registered.
C23_CanvasTracksEndpoint ==
    /\ canvas = "subscribed" =>
           canvasSize = [columns |-> columns["stdout"],
                         rows |-> rows["stdout"]]
    /\ canvas = "unmounted" => canvasListeners = 0

\* C29 (as stated): in the src/index.ts host, while the host is mounted the
\* Ink instance has not been unmounted, whatever onResize props were
\* supplied; at most one widget-resize handler is subscribed; and a widget
\* resize makes each output endpoint resync, and signal, exactly once.
C29_CallbackChangeKeepsInstance ==
    /\ phase = "mounted" => ~ink.unmounted
    /\ Len(closures) <= 1
    /\ (phase = "mounted" /\ lastOp = "resize") =>
           \A e \in Endpoints : SignalsOn(e) = 1

(***************************************************************************)
(* Claims about partial sizes, focus, end, bytes and the queue             *)
(***************************************************************************)
\* exactly one of cols and rows is supplied
OneFixed == (colsProp # Absent) # (rowsProp # Absent)

\* C31 (as stated): with exactly one of cols and rows supplied, once the
\* size effect or an observer callback of the mounted host has run, the
\* widget has the supplied value on that axis, and after an observed
\* container change with a proposal the other axis has the proposed value.
C31_SuppliedAxisFixed ==
    (phase = "mounted" /\ OneFixed /\ lastSizing.kind # "none") =>
        /\ colsProp # Absent => term.cols = colsProp
        /\ rowsProp # Absent => term.rows = rowsProp
        /\ (lastSizing.kind = "observed" /\ lastSizing.proposal # NoProposal) =>
               /\ colsProp = Absent => term.cols = lastSizing.proposal.cols
               /\ rowsProp = Absent => term.rows = lastSizing.proposal.rows

\* the focus or blur call that matches a value of the focused prop
MatchingCall(focused) == IF focused THEN "focus" ELSE "blur"

\* C32: the mount and every change of the focused prop add exactly one call
\* to the focus/blur calls the host has made, the one matching the prop's
\* new value; no other step adds a call; so from the mount on the last call
\* made matches the current value of the prop.
C32_FocusFollowsProp ==
    /\ [](phase # "constructed" =>
             /\ focusLog # <<>>
             /\ focusLog[Len(focusLog)] = MatchingCall(focusedProp))
    /\ [][IF (phase = "constructed" /\ phase' = "mounted")
               \/ focusedProp' # focusedProp
           THEN focusLog' = Append(focusLog, MatchingCall(focusedProp'))
           ELSE focusLog' = focusLog]_vars

\* C32 witness: a host mounted with focused = false was re-rendered with
\* focused = true and then with another onResize and cols
C32_Witness ==
    /\ phase = "mounted"
    /\ focusedProp
    /\ focusLog = <<"blur", "focus">>
    /\ Len(orphans) = 2

\* C33 (as stated): end() given a callback runs it exactly once, whether a
\* chunk is supplied or not (end(undefined, callback), end("", callback)).
C33_EndRunsCallbackOnce ==
    (lastCall.op = "end" /\ lastCall.cb # Undefined) =>
        Len(CallbacksOf(lastCall)) = 1

\* the character a byte encodes, for the bytes used
ByteChar(b) == CASE b = 97 -> "a" [] b = 98 -> "b" [] b = 10 -> LF [] b = 13 -> CR
\* the text a sequence of bytes encodes
TextOf(bytes) == [i \in 1..Len(bytes) |-> ByteChar(bytes[i])]

\* C34 (as stated): write() given the bytes of a string s makes the widget
\* write that write(s) makes, newline normalization included.
C34_BytesForwardedAsText ==
    (lastCall.op = "write" /\ lastCall.kind = "bytes") =>
        WidgetWritesOf(lastCall) =
            WidgetWritesOf(writeCall("string", TextOf(lastCall.args),
                                     Undefined, Undefined))

\* where the carriage-returns inserted for the bare line-feeds of str stand
\* in what is forwarded: each one takes the place of its line-feed, moved
\* right by the bare line-feeds before it
InsertedAt(str) ==
    {i + Cardinality({j \in BareLFs(str) : j < i}) : i \in BareLFs(str)}

\* str without the characters at the positions in P
RECURSIVE Without(_, _, _)
Without(str, P, i) ==
    IF i > Len(str) THEN <<>>
    ELSE (IF i \in P THEN <<>> ELSE <<str[i]>>) \o Without(str, P, i + 1)

\* C35: what a write forwards holds no line-feed that is not immediately
\* preceded by a carriage-return; writing the forwarded string again
\* forwards it unchanged; its length is the chunk's length plus the number
\* of bare line-feeds of the chunk; and deleting the inserted
\* carriage-returns gives back the chunk.
C35_NormalizationIdempotentComplete ==
    \A k \in 1..Len(calls) :
        calls[k].op = "write" =>
            LET chunk == calls[k].chunk
                fwd == termWritten[calls[k].at + 1]
            IN  /\ BareLFs(fwd) = {}
                /\ write(<<>>, fwd) = <<fwd>>
                /\ Len(fwd) = Len(chunk) + Cardinality(BareLFs(chunk))
                /\ \A p \in InsertedAt(chunk) : fwd[p] = CR
                /\ Without(fwd, InsertedAt(chunk), 1) = chunk

\* C35 witness: "\r\n\n" was written: its second line-feed is bare and the
\* widget received "\r\n\r\n"
C35_Witness ==
    \E k \in 1..Len(calls) :
        /\ calls[k].op = "write"
        /\ calls[k].chunk = <<CR, LF, LF>>
        /\ termWritten[calls[k].at + 1] = <<CR, LF, CR, LF>>
        /\ InsertedAt(calls[k].chunk) = {3}

\* C36: a chunk that arrives while no readable listener is registered is
\* appended to the queue behind the chunks already there and nothing is
\* read; at every moment the chunks read so far followed by the queue are
\* the chunks delivered, in arrival order, so later reads return the
\* unheard chunks oldest first and before any later chunk, however many
\* are queued.
C36_UnheardChunksKept ==
    /\ [](GotChunks \o buffer = delivered)
    /\ [][(~listening /\ Len(delivered') > Len(delivered)) =>
             (/\ buffer' = Append(buffer, delivered'[Len(delivered')])
              /\ got' = got)]_vars

\* C36 witness: two chunks arrived and stayed queued with no listener
\* registered, and a third after a listener was registered: the listener
\* then read all three in arrival order
C36_Witness ==
    /\ delivered = <<"a", "bc", "a">>
    /\ listening
    /\ listenedFrom = 2
    /\ buffer = <<>>
    /\ GotChunks = delivered
    /\ \A i \in 1..3 : got[i].during = 3
====
